---- MODULE Spec2Model ----
(***************************************************************************)
(* Model of src/src/utils/asm-utils.ts: the assembly-segmentation helpers  *)
(* extractAssemblyFunction, listAssemblyFunctions and                      *)
(* removeAssemblyFunction.                                                 *)
(*                                                                         *)
(* A text is a sequence of one-character strings, so that split, trim,     *)
(* includes, startsWith, the regular expressions and the substring         *)
(* replacement are computed character by character, as the code does.      *)
(* Line indices are zero-based, as in the code.                            *)
(***************************************************************************)
EXTENDS Integers, Sequences, FiniteSets, TLC

VARIABLES
  file,                 \* the persisted content of the module file
  pc,                   \* position of the removeAssemblyFunction call
  functionName,         \* removeAssemblyFunction's functionName argument
  assemblyFileContent,  \* removeAssemblyFunction's local: the content it read
  out,                  \* what the most recent call returned
  racer                 \* a second removeAssemblyFunction call on the module:
                        \* its position, its argument and the content it read

vars == <<file, pc, functionName, assemblyFileContent, out, racer>>

----------------------------------------------------------------------------
(* Characters and string primitives                                        *)

NL == "\n"
SP == " "

\* the characters String.prototype.trim strips and \s matches (those in use)
Whitespace == {" ", "\t"}

\* the characters \w matches: [A-Za-z0-9_] (lower case suffices here)
WordChars ==
  {"a","b","c","d","e","f","g","h","i","j","k","l","m","n","o","p","q","r",
   "s","t","u","v","w","x","y","z","0","1","2","3","4","5","6","7","8","9","_"}

SetMin(S) == CHOOSE x \in S : \A y \in S : x <= y

\* the length of the run of characters of set C that starts at position i
RECURSIVE RunLen(_, _, _)
RunLen(s, i, C) ==
  IF i > Len(s) \/ s[i] \notin C THEN 0 ELSE 1 + RunLen(s, i + 1, C)

\* the length of the run of characters of set C that ends at position i
RECURSIVE RunLenBack(_, _, _)
RunLenBack(s, i, C) ==
  IF i < 1 \/ s[i] \notin C THEN 0 ELSE 1 + RunLenBack(s, i - 1, C)

\* s.trim()
Trim(s) ==
  LET lead == RunLen(s, 1, Whitespace)
  IN  IF lead = Len(s) THEN <<>>
      ELSE SubSeq(s, lead + 1, Len(s) - RunLenBack(s, Len(s), Whitespace))

\* s.startsWith(p)
StartsWith(s, p) == Len(p) <= Len(s) /\ SubSeq(s, 1, Len(p)) = p

\* whether p occurs in s at the 1-based position i
OccursAt(s, i, p) ==
  i + Len(p) - 1 <= Len(s) /\ SubSeq(s, i, i + Len(p) - 1) = p

\* the 1-based positions at which p occurs in s
Occurrences(s, p) == {i \in 1..Len(s) : OccursAt(s, i, p)}

\* s.includes(p)
Includes(s, p) == Occurrences(s, p) # {}

\* content.split('\n')
RECURSIVE Split(_)
Split(t) ==
  LET nl == {i \in 1..Len(t) : t[i] = NL}
  IN  IF nl = {} THEN <<t>>
      ELSE LET i == SetMin(nl)
           IN  <<SubSeq(t, 1, i - 1)>> \o Split(SubSeq(t, i + 1, Len(t)))

\* lines.join('\n')
RECURSIVE Join(_)
Join(ls) ==
  IF Len(ls) = 0 THEN <<>>
  ELSE IF Len(ls) = 1 THEN ls[1]
  ELSE ls[1] \o <<NL>> \o Join(Tail(ls))

\* lines.slice(from, to): zero-based, `to` exclusive
Slice(ls, from, to) == SubSeq(ls, from + 1, to)

\* s.replace(p, ''): the first occurrence of the string p is deleted
ReplaceFirst(s, p) ==
  IF ~Includes(s, p) THEN s
  ELSE LET i == SetMin(Occurrences(s, p))
       IN  SubSeq(s, 1, i - 1) \o SubSeq(s, i + Len(p), Len(s))

\* mutant: the regular expression without its g flag, s.replace(/\n{3,}/, '\n\n'):
\* only the first run is replaced
CollapseBlankLines_FirstRunOnly(s) ==
  LET runs == {i \in 1..Len(s) :
                 /\ RunLen(s, i, {NL}) >= 3
                 /\ (i = 1 \/ s[i - 1] # NL)}
  IN  IF runs = {} THEN s
      ELSE LET i == SetMin(runs)
           IN  SubSeq(s, 1, i - 1) \o <<NL, NL>>
                 \o SubSeq(s, i + RunLen(s, i, {NL}), Len(s))

\* s.replace(/\n{3,}/g, '\n\n')
RECURSIVE CollapseBlankLines(_)
CollapseBlankLines(s) ==
  IF s = <<>> THEN <<>>
  ELSE IF s[1] # NL THEN <<s[1]>> \o CollapseBlankLines(Tail(s))
  ELSE LET n == RunLen(s, 1, {NL})
       IN  (IF n >= 3 THEN <<NL, NL>> ELSE SubSeq(s, 1, n))
             \o CollapseBlankLines(SubSeq(s, n + 1, Len(s)))

----------------------------------------------------------------------------
(* The marker vocabulary                                                   *)

GLABEL   == <<"g","l","a","b","e","l">>
DOTSIZE  == <<".","s","i","z","e">>
SIZE     == <<"s","i","z","e">>
ALIGN3   == <<".","a","l","i","g","n"," ","3">>
DOTALIGN == <<".","a","l","i","g","n">>
JR       == <<"j","r"," ">>

\* the capture of /<kw>\s+(\w+)/ tried at position i (kw starts at i), or <<>>
CaptureAt(s, i, kw) ==
  IF ~OccursAt(s, i, kw) THEN <<>>
  ELSE LET ws == RunLen(s, i + Len(kw), Whitespace)
           w  == RunLen(s, i + Len(kw) + ws, WordChars)
       IN  IF ws >= 1 /\ w >= 1
           THEN SubSeq(s, i + Len(kw) + ws, i + Len(kw) + ws + w - 1)
           ELSE <<>>

\* line.match(/glabel\s+(\w+)/): group 1 of the leftmost match, <<>> if none
GlabelMatch(s) ==
  LET hits == {i \in 1..Len(s) : CaptureAt(s, i, GLABEL) # <<>>}
  IN  IF hits = {} THEN <<>> ELSE CaptureAt(s, SetMin(hits), GLABEL)

\* line.match(/.size\s+(\w+)/): the unescaped dot matches any one character
SizeMatch(s) ==
  LET hits == {i \in 2..Len(s) : CaptureAt(s, i, SIZE) # <<>>}
  IN  IF hits = {} THEN <<>> ELSE CaptureAt(s, SetMin(hits), SIZE)

----------------------------------------------------------------------------
(* extractAssemblyFunction                                                 *)

\* what the function returns when nothing is resolved (no text equals it)
Null == <<"null">>

\* mutant: the forward scan takes every line up to the next start
ForwardScan_ToNextStart(lines, i, prevLine, k, functionEnd) == i - 1

\* the secondary forward scan after a `jr ` line: for (k = j + 1; k < i; k++).
\* Its first test reads prevLine, the `jr ` line itself.
RECURSIVE ForwardScan(_, _, _, _, _)
ForwardScan(lines, i, prevLine, k, functionEnd) ==
  IF k >= i THEN functionEnd
  ELSE LET nextLine == Trim(lines[k + 1])
       IN  IF StartsWith(prevLine, DOTSIZE) \/ prevLine = ALIGN3
           THEN ForwardScan(lines, i, prevLine, k + 1, k)
           ELSE IF nextLine # <<>> /\ ~StartsWith(nextLine, DOTALIGN)
           THEN functionEnd
           ELSE ForwardScan(lines, i, prevLine, k + 1, functionEnd)

\* mutant: the backward scan without the test `prevLine === '.align 3'`
RECURSIVE BackwardScan_NoAlign(_, _, _, _)
BackwardScan_NoAlign(lines, i, functionStart, j) ==
  IF j < functionStart THEN -1
  ELSE LET prevLine == Trim(lines[j + 1])
       IN  IF StartsWith(prevLine, DOTSIZE) THEN j
           ELSE IF StartsWith(prevLine, JR)
           THEN LET fe == ForwardScan(lines, i, prevLine, j + 1, -1)
                IN  IF fe = -1 THEN j ELSE fe
           ELSE BackwardScan_NoAlign(lines, i, functionStart, j - 1)

\* the backward scan from the next start marker: for (j = i - 1; j >= functionStart; j--).
\* Yields functionEnd, still -1 when no line of the scan sets it.
RECURSIVE BackwardScan(_, _, _, _)
BackwardScan(lines, i, functionStart, j) ==
  IF j < functionStart THEN -1
  ELSE LET prevLine == Trim(lines[j + 1])
       IN  IF StartsWith(prevLine, DOTSIZE) \/ prevLine = ALIGN3 THEN j
           ELSE IF StartsWith(prevLine, JR)
           THEN LET fe == ForwardScan(lines, i, prevLine, j + 1, -1)
                IN  IF fe = -1 THEN j ELSE fe
           ELSE BackwardScan(lines, i, functionStart, j - 1)

\* mutant: `functionEnd = i` for `functionEnd = i - 1`
NextStartEnd_AtNextStart(lines, i, functionStart) ==
  LET fe == BackwardScan(lines, i, functionStart, i - 1)
  IN  IF fe = -1 THEN i ELSE fe

\* mutant: without `if (functionEnd === -1) functionEnd = i - 1`
NextStartEnd_NoFallback(lines, i, functionStart) ==
  BackwardScan(lines, i, functionStart, i - 1)

\* the end chosen when line i contains `glabel` while the function is open
NextStartEnd(lines, i, functionStart) ==
  LET fe == BackwardScan(lines, i, functionStart, i - 1)
  IN  IF fe = -1 THEN i - 1 ELSE fe

\* the test that opens the function at a start marker line
IsStartFor(line, name) == Includes(line, GLABEL \o <<SP>> \o name)

\* the test that opens the function at a bare label line
IsLabelFor(line, name) == StartsWith(line, name \o <<":">>)

\* the test that closes the function at its size marker line
IsSizeFor(line, name) == Includes(line, DOTSIZE \o <<SP>> \o name)

\* mutant: only a line that names a function ends the open one
IsNextStart_NamedOnly(line) == GlabelMatch(line) # <<>>

\* the test for the start of the next function
IsNextStart(line) == Includes(line, GLABEL)

\* the main loop: for (i = 0; i < lines.length; i++), from index i in state st
RECURSIVE ExtractLoop(_, _, _, _)
ExtractLoop(lines, name, i, st) ==
  IF i >= Len(lines) THEN st
  ELSE LET line == Trim(lines[i + 1])
           open == [st EXCEPT !.functionStart = i, !.inFunction = TRUE]
       IN  IF ~st.inFunction
           THEN IF IsStartFor(line, name)
                THEN ExtractLoop(lines, name, i + 1, open)
                ELSE IF IsLabelFor(line, name) /\ st.functionStart = -1
                THEN ExtractLoop(lines, name, i + 1, open)
                ELSE ExtractLoop(lines, name, i + 1, st)
           ELSE IF IsSizeFor(line, name)
                THEN [st EXCEPT !.functionEnd = i]
                ELSE IF IsNextStart(line)
                THEN [st EXCEPT !.functionEnd =
                                   NextStartEnd(lines, i, st.functionStart)]
                ELSE ExtractLoop(lines, name, i + 1, st)

\* functionStart, functionEnd and inFunction when the loop is left
ResolveRange(lines, name) ==
  ExtractLoop(lines, name, 0,
              [functionStart |-> -1, functionEnd |-> -1, inFunction |-> FALSE])

\* the condition under which a text is returned
Resolved(st) ==
  st.functionStart # -1 /\ st.functionEnd # -1
    /\ st.functionEnd >= st.functionStart

\* mutant: lines.slice(functionStart, functionEnd), the end line left out
extractAssemblyFunction_ExclusiveEnd(assemblyContent, name) ==
  LET lines == Split(assemblyContent)
      st    == ResolveRange(lines, name)
  IN  IF Resolved(st)
      THEN Join(Slice(lines, st.functionStart, st.functionEnd))
      ELSE Null

extractAssemblyFunction(assemblyContent, name) ==
  LET lines == Split(assemblyContent)
      st    == ResolveRange(lines, name)
  IN  IF Resolved(st)
      THEN Join(Slice(lines, st.functionStart, st.functionEnd + 1))
      ELSE Null

----------------------------------------------------------------------------
(* listAssemblyFunctions                                                   *)

\* no function is being tracked (currentFunction = null)
NoFunction == [name |-> Null, startIndex |-> -1]

\* the record pushed for lines.slice(from, to); startLine and endLine name
\* the slice (the code keeps only name and code)
FunctionRecord(lines, name, from, to) ==
  [name |-> name, code |-> Join(Slice(lines, from, to)),
   startLine |-> from, endLine |-> to - 1]

\* mutant: lines.slice(startIndex, i + 1), the next start marker included
CloseBefore_ThroughNextStart(lines, currentFunction, i) ==
  FunctionRecord(lines, currentFunction.name, currentFunction.startIndex, i + 1)

\* the open function closed before line i: lines.slice(startIndex, i)
CloseBefore(lines, currentFunction, i) ==
  FunctionRecord(lines, currentFunction.name, currentFunction.startIndex, i)

\* mutant: lines.slice(startIndex, i), the end marker left out
CloseAt_ExclusiveEnd(lines, currentFunction, i) ==
  FunctionRecord(lines, currentFunction.name, currentFunction.startIndex, i)

\* the open function closed at its end marker: lines.slice(startIndex, i + 1)
CloseAt(lines, currentFunction, i) ==
  FunctionRecord(lines, currentFunction.name, currentFunction.startIndex, i + 1)

\* mutant: lines.slice(startIndex, lines.length - 1), the last line left out
CloseAtEnd_BeforeLast(lines, currentFunction) ==
  FunctionRecord(lines, currentFunction.name, currentFunction.startIndex,
                 Len(lines) - 1)

\* the open function closed at the end of the file: lines.slice(startIndex)
CloseAtEnd(lines, currentFunction) ==
  FunctionRecord(lines, currentFunction.name, currentFunction.startIndex,
                 Len(lines))

\* the loop: for (i = 0; i < lines.length; i++), then the last function
RECURSIVE ListLoop(_, _, _, _)
ListLoop(lines, i, currentFunction, functions) ==
  IF i >= Len(lines)
  THEN IF currentFunction # NoFunction
       THEN Append(functions, CloseAtEnd(lines, currentFunction))
       ELSE functions
  ELSE LET line == Trim(lines[i + 1])
           thumbStartMatch == GlabelMatch(line)
           thumbEndMatch == SizeMatch(line)
       IN  IF thumbStartMatch # <<>>
           THEN ListLoop(lines, i + 1,
                         [name |-> thumbStartMatch, startIndex |-> i],
                         IF currentFunction # NoFunction
                         THEN Append(functions,
                                     CloseBefore(lines, currentFunction, i))
                         ELSE functions)
           ELSE IF currentFunction # NoFunction
           THEN IF thumbEndMatch # <<>> /\ thumbEndMatch = currentFunction.name
                THEN ListLoop(lines, i + 1, NoFunction,
                              Append(functions,
                                     CloseAt(lines, currentFunction, i)))
                ELSE IF Includes(line, GLABEL)
                THEN \* the regular expression did not match: the name is ""
                     ListLoop(lines, i + 1,
                              [name |-> GlabelMatch(line), startIndex |-> i],
                              Append(functions,
                                     CloseBefore(lines, currentFunction, i)))
                ELSE ListLoop(lines, i + 1, currentFunction, functions)
           ELSE ListLoop(lines, i + 1, currentFunction, functions)

listAssemblyFunctions(assemblyContent) ==
  ListLoop(Split(assemblyContent), 0, NoFunction, <<>>)

----------------------------------------------------------------------------
(* extractFunctionCallsFromAssembly                                        *)

JAL  == <<"j","a","l">>
LA   == <<"l","a">>
ADD  == <<"a","d","d">>
MOVE == <<"m","o","v","e">>

\* the word that follows position i, where `=` is: (\w+) after `=`, or <<>>
WordAfterEquals(s, i) ==
  IF i <= Len(s) /\ s[i] = "=" /\ RunLen(s, i + 1, WordChars) >= 1
  THEN SubSeq(s, i + 1, i + RunLen(s, i + 1, WordChars))
  ELSE <<>>

\* trimmed.match(/jal\s+(\w+)/): group 1 of the leftmost match, <<>> if none
JalMatch(s) ==
  LET hits == {i \in 1..Len(s) : CaptureAt(s, i, JAL) # <<>>}
  IN  IF hits = {} THEN <<>> ELSE CaptureAt(s, SetMin(hits), JAL)

\* trimmed.match(/@\s*=(\w+)/): group 1 of the leftmost match, <<>> if none
RefMatch(s) ==
  LET at(i) == WordAfterEquals(s, i + 1 + RunLen(s, i + 1, Whitespace))
      hits  == {i \in 1..Len(s) : s[i] = "@" /\ at(i) # <<>>}
  IN  IF hits = {} THEN <<>> ELSE at(SetMin(hits))

\* trimmed.match(/(?:la|add|move).*=(\w+)/): the match starts at the leftmost
\* keyword that has a `=NAME` after it, and the greedy .* runs to the last
\* `=` that a word follows
DirectMatch(s) ==
  LET after(i) == IF OccursAt(s, i, LA) THEN i + Len(LA)
                  ELSE IF OccursAt(s, i, ADD) THEN i + Len(ADD)
                  ELSE IF OccursAt(s, i, MOVE) THEN i + Len(MOVE)
                  ELSE 0
      equals(i) == {e \in after(i)..Len(s) : WordAfterEquals(s, e) # <<>>}
      hits == {i \in 1..Len(s) : after(i) # 0 /\ equals(i) # {}}
  IN  IF hits = {} THEN <<>>
      ELSE LET es == equals(SetMin(hits))
           IN  WordAfterEquals(s, CHOOSE e \in es : \A d \in es : d <= e)

\* mutant: an array for the Set, functionCalls.push(name)
AddCall_NoDedup(functionCalls, match) ==
  IF match = <<>> THEN functionCalls ELSE Append(functionCalls, match)

\* `if (match) functionCalls.add(match[1])`: a Set keeps the first insertion
AddCall(functionCalls, match) ==
  IF match = <<>> \/ \E k \in 1..Len(functionCalls) : functionCalls[k] = match
  THEN functionCalls
  ELSE Append(functionCalls, match)

\* the loop: for (const line of lines), from the 1-based line i
RECURSIVE CallsLoop(_, _, _)
CallsLoop(lines, i, functionCalls) ==
  IF i > Len(lines) THEN functionCalls
  ELSE LET trimmed == Trim(lines[i])
       IN  CallsLoop(lines, i + 1,
                     AddCall(AddCall(AddCall(functionCalls, JalMatch(trimmed)),
                                     RefMatch(trimmed)),
                             DirectMatch(trimmed)))

\* Array.from(functionCalls)
extractFunctionCallsFromAssembly(assembly) == CallsLoop(Split(assembly), 1, <<>>)

----------------------------------------------------------------------------
(* removeAssemblyFunction: the text it computes from the content it read   *)

\* mutant: the `if (!functionCode)` test left out
NotFound_Never(functionCode) == FALSE

\* `if (!functionCode)`: null and the empty string are both falsy
NotFound(functionCode) == functionCode = Null \/ functionCode = <<>>

\* assemblyFileContent.replace(functionCode, '')
updatedContent(content, functionCode) == ReplaceFirst(content, functionCode)

\* mutant: assemblyFileContent.replace(/\n{3,}/g, '\n\n'): the content read
\* is normalized instead of the updated content
cleanedContent_OfContentRead(content, functionCode) ==
  CollapseBlankLines(content)

\* updatedContent.replace(/\n{3,}/g, '\n\n')
cleanedContent(content, functionCode) ==
  CollapseBlankLines(updatedContent(content, functionCode))

----------------------------------------------------------------------------
(* Inputs: module texts built from a small vocabulary of lines             *)

NameF  == <<"f">>
NameFo == <<"f","o">>

\* the function names the calls are made with: one is a prefix of the other
Names == {NameF, NameFo}

StartLine(name) == GLABEL \o <<SP>> \o name       \* glabel NAME
SizeLine(name)  == DOTSIZE \o <<SP>> \o name      \* .size NAME
LabelLine(name) == name \o <<":">>                \* NAME:
Nop    == <<SP, "n","o","p">>                    \*  nop
Return == <<SP>> \o JR \o <<"r","a">>            \*  jr ra
Empty  == <<>>                                   \* an empty line
Align2 == DOTALIGN \o <<SP, "2">>                 \* .align 2
SizeNote(name) == <<"#", SP>> \o SIZE \o <<SP>> \o name  \* # size NAME

\* the sequences of at most n lines over a vocabulary
LinesOver(V, n) == UNION {[1..k -> V] : k \in 1..n}

\* k empty lines
Blank(k) == [i \in 1..k |-> Empty]

\* glabel NAME, a body, .size NAME
Block(name, body) == <<StartLine(name)>> \o body \o <<SizeLine(name)>>

\* (a) any lines: the largest number of lines
MaxLines == 3

\* (b) one unclosed function: the largest number of lines before the next start
MaxTail == 3

\* (c) well-formed modules: the largest number of body lines of a function
MaxBody == 1

\* (d) padded modules: the largest number of consecutive empty lines
MaxBlank == 2

\* (a) every text of at most MaxLines lines over the markers of both names,
\*     a bare label, a `glabel` with no name, an instruction, an empty line
AnyLines ==
  LinesOver({StartLine(NameF), StartLine(NameFo), SizeLine(NameF),
             SizeLine(NameFo), LabelLine(NameF), GLABEL, Nop, Empty}, MaxLines)

\* (b) glabel f, lines that may end it, glabel fo: f is closed by no .size f
UnclosedLines ==
  {<<StartLine(NameF)>> \o tail \o <<StartLine(NameFo)>> :
     tail \in LinesOver({Nop, Return, ALIGN3, Align2, SizeLine(NameFo), Empty},
                        MaxTail)}

\* the bodies a function of a well-formed module may have
Bodies == {<<>>} \cup LinesOver({Nop, Return, ALIGN3, Empty}, MaxBody)

\* (c) every function is opened by its glabel line and closed by its own
\*     .size line before the next glabel line; the names are distinct
WellFormedLines ==
  {Block(n, b) : n \in Names, b \in Bodies}
    \cup UNION {{Block(n, b) \o gap \o Block(m, c) :
                    m \in Names \ {n}, b \in Bodies, c \in Bodies,
                    gap \in {Blank(0), Blank(1)}} : n \in Names}

\* (d) two well-formed functions with runs of empty lines before, between,
\*     inside and after them
PaddedLines ==
  UNION {{Blank(a) \o Block(n, <<>>) \o Blank(b) \o Block(m, Blank(c)) \o Blank(d) :
            m \in Names \ {n}, a \in 0..MaxBlank, b \in 0..MaxBlank,
            c \in 0..MaxBlank, d \in 0..MaxBlank} : n \in Names}

\* (e) one or two functions, a comment that notes a size inside the first
NotedLines ==
  UNION {{<<StartLine(n), SizeNote(m), Nop, SizeLine(n)>>,
          <<StartLine(n), SizeNote(m), SizeLine(n)>> \o Block(m, <<>>)} :
           n \in Names, m \in Names}

Foo == <<"f","o","o">>
Bar == <<"b","a","r">>
Baz == <<"b","a","z">>

JalLine(name) == JAL \o <<SP>> \o name                       \* jal NAME
RefLine(name) == <<"@", SP, "=">> \o name                     \* @ =NAME
LaLine(name)  == LA \o <<SP, "$","t","0",",", SP, "=">> \o name  \* la $t0, =NAME
\* add a, =NAME @=OTHER: a load form and a comment form in one line
AddRefLine(name, other) ==
  ADD \o <<SP, "a", ",", SP, "=">> \o name \o <<SP, "@", "=">> \o other

\* (f) function texts: the largest number of lines
MaxCallLines == 3

\* (f) every text of at most MaxCallLines lines over the three reference
\*     forms, an indented call of a name another form has, a line with two
\*     forms, and an instruction that has none
CallTexts ==
  {Join(ls) : ls \in LinesOver({JalLine(Foo), RefLine(Bar), LaLine(Baz),
                                <<SP>> \o JalLine(Bar), AddRefLine(Foo, Baz), Nop},
                               MaxCallLines)}

\* (g) the modules two calls race on: one or two well-formed functions of
\*     at most one instruction
RaceModules ==
  {Join(ls) : ls \in
     {Block(n, b) : n \in Names, b \in {<<>>, <<Nop>>, <<Return>>}}
       \cup UNION {{Block(n, b) \o gap \o Block(m, c) :
                       m \in Names \ {n}, b \in {<<>>, <<Nop>>, <<Return>>},
                       c \in {<<>>, <<Nop>>, <<Return>>},
                       gap \in {Blank(0), Blank(1)}} : n \in Names}}

\* the module texts a run may start from
Modules ==
  {Join(ls) : ls \in AnyLines \cup UnclosedLines \cup WellFormedLines
                      \cup PaddedLines \cup NotedLines}

----------------------------------------------------------------------------
(* The calls                                                               *)

NoOut == [op |-> "none", name |-> Null, code |-> Null,
          functionStart |-> -1, functionEnd |-> -1, functions |-> <<>>,
          calls |-> <<>>]

\* a removeAssemblyFunction call that has not begun
NoCall == [pc |-> "idle", functionName |-> Null, assemblyFileContent |-> Null]

\* the positions of removeAssemblyFunction at which the next call is made:
\* a thrown error ends the run
Quiet == {"idle", "done"}

Init ==
  /\ file \in Modules
  /\ pc = "idle"
  /\ functionName = Null
  /\ assemblyFileContent = Null
  /\ out = NoOut
  /\ racer = NoCall

\* a call extractAssemblyFunction(file, name)
Extract(name) ==
  /\ pc \in Quiet
  /\ LET st == ResolveRange(Split(file), name)
     IN  out' = [op |-> "extract", name |-> name,
                 code |-> extractAssemblyFunction(file, name),
                 functionStart |-> st.functionStart,
                 functionEnd |-> st.functionEnd,
                 functions |-> <<>>,
                 calls |-> <<>>]
  /\ UNCHANGED <<file, pc, functionName, assemblyFileContent, racer>>

\* a call listAssemblyFunctions(file)
List ==
  /\ pc \in Quiet
  /\ out' = [NoOut EXCEPT !.op = "list",
                          !.functions = listAssemblyFunctions(file)]
  /\ UNCHANGED <<file, pc, functionName, assemblyFileContent, racer>>

\* removeAssemblyFunction with no workspace root: it throws before it reads
RemoveNoWorkspace ==
  /\ pc = "idle"
  /\ pc' = "noWorkspace"
  /\ out' = NoOut
  /\ UNCHANGED <<file, functionName, assemblyFileContent, racer>>

\* removeAssemblyFunction up to `await readFile`: the content is read
RemoveRead(name) ==
  /\ pc = "idle"
  /\ pc' = "read"
  /\ functionName' = name
  /\ assemblyFileContent' = file
  /\ out' = NoOut
  /\ UNCHANGED <<file, racer>>

\* the function is not in the content read: it throws, nothing is written
RemoveNotFound ==
  /\ pc = "read"
  /\ NotFound(extractAssemblyFunction(assemblyFileContent, functionName))
  /\ pc' = "notFound"
  /\ UNCHANGED <<file, functionName, assemblyFileContent, out, racer>>

\* the function is found: the cleaned content is written (await writeFile)
RemoveWrite ==
  /\ pc = "read"
  /\ LET functionCode == extractAssemblyFunction(assemblyFileContent, functionName)
     IN  /\ ~NotFound(functionCode)
         /\ file' = cleanedContent(assemblyFileContent, functionCode)
  /\ pc' = "written"
  /\ UNCHANGED <<functionName, assemblyFileContent, out, racer>>

\* the module is open in the editor and dirty: await openDocument.save()
RemoveSave ==
  /\ pc = "written"
  /\ pc' = "saved"
  /\ UNCHANGED <<file, functionName, assemblyFileContent, out, racer>>

\* the call returns: after the save, or at once when the module is not open
\* in the editor or not dirty
RemoveReturn ==
  /\ pc \in {"written", "saved"}
  /\ pc' = "done"
  /\ UNCHANGED <<file, functionName, assemblyFileContent, out, racer>>

Next ==
  \/ \E name \in Names : Extract(name)
  \/ List
  \/ RemoveNoWorkspace
  \/ \E name \in Names : RemoveRead(name)
  \/ RemoveNotFound
  \/ RemoveWrite
  \/ RemoveSave
  \/ RemoveReturn

Spec == Init /\ [][Next]_vars

\* two removeAssemblyFunction calls on one module, not serialized by the
\* caller: the module is well-formed
InitRace ==
  /\ file \in RaceModules
  /\ pc = "idle"
  /\ functionName = Null
  /\ assemblyFileContent = Null
  /\ out = NoOut
  /\ racer = NoCall

\* the second call up to `await readFile`: no lock is taken, it reads
\* whatever the first call is doing
RacerRead(name) ==
  /\ racer.pc = "idle"
  /\ racer' = [pc |-> "read", functionName |-> name,
               assemblyFileContent |-> file]
  /\ UNCHANGED <<file, pc, functionName, assemblyFileContent, out>>

\* mutant: the second call reads the module again before it writes
RacerContent_ReadAgain == file

\* the content the second call computes its text from
RacerContent == racer.assemblyFileContent

\* the second call does not find its function: it throws
RacerNotFound ==
  /\ racer.pc = "read"
  /\ NotFound(extractAssemblyFunction(RacerContent, racer.functionName))
  /\ racer' = [racer EXCEPT !.pc = "notFound"]
  /\ UNCHANGED <<file, pc, functionName, assemblyFileContent, out>>

\* the second call writes the text it computed from the content it read
RacerWrite ==
  /\ racer.pc = "read"
  /\ LET functionCode == extractAssemblyFunction(RacerContent, racer.functionName)
     IN  /\ ~NotFound(functionCode)
         /\ file' = cleanedContent(RacerContent, functionCode)
  /\ racer' = [racer EXCEPT !.pc = "written"]
  /\ UNCHANGED <<pc, functionName, assemblyFileContent, out>>

\* the second call returns, after the editor save if there is one
RacerReturn ==
  /\ racer.pc = "written"
  /\ racer' = [racer EXCEPT !.pc = "done"]
  /\ UNCHANGED <<file, pc, functionName, assemblyFileContent, out>>

NextRace ==
  \/ \E name \in Names : RemoveRead(name)
  \/ RemoveNotFound
  \/ RemoveWrite
  \/ RemoveSave
  \/ RemoveReturn
  \/ \E name \in Names : RacerRead(name)
  \/ RacerNotFound
  \/ RacerWrite
  \/ RacerReturn

SpecRace == InitRace /\ [][NextRace]_vars

\* a function text is at hand, and nothing else
InitCalls ==
  /\ file \in CallTexts
  /\ pc = "idle"
  /\ functionName = Null
  /\ assemblyFileContent = Null
  /\ out = NoOut
  /\ racer = NoCall

\* a call extractFunctionCallsFromAssembly(file)
Calls ==
  /\ out' = [NoOut EXCEPT !.op = "calls",
                          !.calls = extractFunctionCallsFromAssembly(file)]
  /\ UNCHANGED <<file, pc, functionName, assemblyFileContent, racer>>

NextCalls == Calls

SpecCalls == InitCalls /\ [][NextCalls]_vars

----------------------------------------------------------------------------
(* Vocabulary of the properties                                            *)

\* the zero-based indices of the lines ls
Idx(ls) == 0..(Len(ls) - 1)

\* line i of ls, trimmed
Trimmed(ls, i) == Trim(ls[i + 1])

\* lines from..to of ls, both inclusive, joined
TextOf(ls, from, to) == Join(SubSeq(ls, from + 1, to + 1))

\* the text t occurs somewhere in line i
HasText(ls, i, t) ==
  \E k \in 1..Len(Trimmed(ls, i)) : OccursAt(Trimmed(ls, i), k, t)

\* the name line i declares as a start marker, <<>> if it is none
StartMarkerName(ls, i) == GlabelMatch(Trimmed(ls, i))

\* the name line i declares as a size marker, <<>> if it is none
SizeMarkerName(ls, i) == SizeMatch(Trimmed(ls, i))

\* line i is a bare label of name
BareLabel(ls, i, name) == StartsWith(Trimmed(ls, i), name \o <<":">>)

\* line i has the text `glabel NAME`, or begins with `NAME:`
OpensAt(ls, i, name) ==
  HasText(ls, i, GLABEL \o <<SP>> \o name) \/ BareLabel(ls, i, name)

\* line i has the text `.size NAME`, or the text `glabel`
ClosesAt(ls, i, name) ==
  HasText(ls, i, DOTSIZE \o <<SP>> \o name) \/ HasText(ls, i, GLABEL)

\* every line the substring tests take for a marker of name declares
\* exactly name, every line with the text `glabel` is a start marker, and
\* no line is a bare label of name
Unambiguous(ls, name) ==
  \A i \in Idx(ls) :
    /\ HasText(ls, i, GLABEL \o <<SP>> \o name) => StartMarkerName(ls, i) = name
    /\ HasText(ls, i, GLABEL) => StartMarkerName(ls, i) # <<>>
    /\ HasText(ls, i, DOTSIZE \o <<SP>> \o name) => SizeMarkerName(ls, i) = name
    /\ ~BareLabel(ls, i, name)

\* every `glabel` line names a function, the function is closed by a size
\* marker naming it before the next `glabel` line, and the names are distinct
WellFormed(ls) ==
  LET starts == {i \in Idx(ls) : HasText(ls, i, GLABEL)}
  IN  /\ starts # {}
      /\ \A i \in starts :
           /\ StartMarkerName(ls, i) # <<>>
           /\ \E e \in Idx(ls) :
                /\ e > i
                /\ SizeMarkerName(ls, e) = StartMarkerName(ls, i)
                /\ \A k \in (i + 1)..e : k \notin starts
      /\ \A i \in starts : \A j \in starts :
           i # j => StartMarkerName(ls, i) # StartMarkerName(ls, j)

\* the least index of S, -1 when S is empty
First(S) == IF S = {} THEN -1 ELSE SetMin(S)

\* the lines of the persisted text
FileLines == Split(file)

\* the most recent call was extractAssemblyFunction and returned a text
Extracted == out.op = "extract" /\ out.code # Null

----------------------------------------------------------------------------
(* C1 *)

\* C1 as claimed: when the buffer has a start marker line for the name and,
\* after it, a size marker line naming it, the range returned begins at the
\* start marker and ends at the (first such) size marker. Taken on buffers
\* that declare the name once, with no bare label and no marker of a longer
\* name, so that the start selection (C7) and the name matching (C8) play
\* no part.
C1_Original ==
  out.op = "extract" =>
    LET ls == FileLines
        s  == First({i \in Idx(ls) : StartMarkerName(ls, i) = out.name})
        e  == First({i \in Idx(ls) : i > s /\ SizeMarkerName(ls, i) = out.name})
    IN  (/\ s # -1 /\ e # -1 /\ Unambiguous(ls, out.name)
         /\ \A i \in Idx(ls) : StartMarkerName(ls, i) = out.name => i = s) =>
          /\ out.functionStart = s
          /\ out.functionEnd = e
          /\ out.code = TextOf(ls, s, e)

\* C1 amended: let s be the first line that has the text `glabel NAME` or
\* begins with `NAME:`, and e the first later line that has the text
\* `.size NAME`; if no line strictly between them has the text `glabel`,
\* the text returned is exactly the lines s..e.
C1_EndsAtSizeMarker ==
  out.op = "extract" =>
    LET ls == FileLines
        s  == First({i \in Idx(ls) : OpensAt(ls, i, out.name)})
        e  == First({i \in Idx(ls) :
                       i > s /\ HasText(ls, i, DOTSIZE \o <<SP>> \o out.name)})
    IN  (s # -1 /\ e # -1 /\ \A k \in (s + 1)..(e - 1) : ~HasText(ls, k, GLABEL))
          => /\ out.functionStart = s
             /\ out.functionEnd = e
             /\ out.code = TextOf(ls, s, e)

\* a function with a body closed by its size marker has been extracted, a
\* `glabel` line of another function following it
C1_Witness ==
  /\ out.op = "extract"
  /\ out.name = NameFo
  /\ out.functionStart = 0
  /\ out.functionEnd = 2
  /\ FileLines = Block(NameFo, <<Return>>) \o Block(NameF, <<Nop>>)

----------------------------------------------------------------------------
(* C2 *)

\* C2: the records listAssemblyFunctions returns are in file order and do
\* not overlap: startLine <= endLine for each, and each starts after the
\* end of the one before it; each code is the text of its lines.
C2_RangesOrdered ==
  out.op = "list" =>
    \A i \in 1..Len(out.functions) :
      LET r == out.functions[i]
      IN  /\ 0 <= r.startLine
          /\ r.startLine <= r.endLine
          /\ r.endLine < Len(FileLines)
          /\ r.code = TextOf(FileLines, r.startLine, r.endLine)
          /\ i > 1 => r.startLine > out.functions[i - 1].endLine

\* two records have been listed, the first of more than one line, with a
\* line of no record between them
C2_Witness ==
  /\ out.op = "list"
  /\ Len(out.functions) = 2
  /\ out.functions[2].startLine > out.functions[1].endLine + 1
  /\ out.functions[1].endLine > out.functions[1].startLine

----------------------------------------------------------------------------
(* C3 *)

\* C3 as claimed: there are as many records as start marker lines, and the
\* i-th record starts at the i-th start marker line and carries its name.
C3_Original ==
  out.op = "list" =>
    LET ls == FileLines
        starts == {i \in Idx(ls) : StartMarkerName(ls, i) # <<>>}
    IN  /\ Len(out.functions) = Cardinality(starts)
        /\ \A k \in 1..Len(out.functions) :
             /\ out.functions[k].startLine \in starts
             /\ Cardinality({i \in starts : i < out.functions[k].startLine}) = k - 1
             /\ out.functions[k].name = StartMarkerName(ls, out.functions[k].startLine)

----------------------------------------------------------------------------
(* C4, C5: removal, then the catalogue of the text written back            *)

\* removeAssemblyFunction has written and returned, and listAssemblyFunctions
\* has then been called on the text it wrote
Recatalogued == pc = "done" /\ out.op = "list"

\* the lines removeAssemblyFunction read
ReadLines == Split(assemblyFileContent)

\* some record of the catalogue fs has name and code
Lists(fs, name, code) ==
  \E k \in 1..Len(fs) : fs[k].name = name /\ fs[k].code = code

\* C4 as claimed: after a successful removal of F, the catalogue of the
\* written text has no record named F. Taken on texts with no bare label and
\* no marker of a longer name (C7 and C8 play no part).
C4_Original ==
  (Recatalogued /\ Unambiguous(ReadLines, functionName)) =>
    \A k \in 1..Len(out.functions) : out.functions[k].name # functionName

\* C4 amended: if the removed block begins at a line that has the text
\* `glabel F` and is the only line of the text that is a start marker naming
\* F, the catalogue of the written text has no record named F.
C4_RemovedNotListed ==
  Recatalogued =>
    LET ls == ReadLines
        s  == First({i \in Idx(ls) : OpensAt(ls, i, functionName)})
    IN  (/\ HasText(ls, s, GLABEL \o <<SP>> \o functionName)
         /\ {i \in Idx(ls) : StartMarkerName(ls, i) = functionName} = {s})
          => \A k \in 1..Len(out.functions) :
               out.functions[k].name # functionName

\* the only declaration of fo has been removed from a text that declares f
\* first, and f is still listed
C4_Witness ==
  /\ Recatalogued
  /\ functionName = NameFo
  /\ {i \in Idx(ReadLines) : StartMarkerName(ReadLines, i) = NameFo} = {2}
  /\ StartMarkerName(ReadLines, 0) = NameF
  /\ Len(out.functions) = 1
  /\ out.functions[1].name = NameF

\* C5 as claimed: every function other than F listed before the removal is
\* listed after it with the same code. Taken on well-formed texts with no
\* bare label and no marker of a longer name (C7 and C8 play no part).
C5_Original ==
  (Recatalogued /\ WellFormed(ReadLines)
     /\ Unambiguous(ReadLines, functionName)) =>
    LET before == listAssemblyFunctions(assemblyFileContent)
    IN  \A k \in 1..Len(before) :
          before[k].name # functionName =>
            Lists(out.functions, before[k].name, before[k].code)

----------------------------------------------------------------------------
(* C6, C7, C8: extractAssemblyFunction's start, end and names              *)

\* C6 as claimed: once the buffer has a start marker or a bare label of the
\* name, a range is returned.
C6_Original ==
  out.op = "extract" =>
    ((\E i \in Idx(FileLines) :
        StartMarkerName(FileLines, i) = out.name
          \/ BareLabel(FileLines, i, out.name))
       => out.code # Null)

\* C6 amended: a range is returned exactly when some line has the text
\* `glabel NAME` or begins with `NAME:` and some line after the first such
\* line has the text `.size NAME` or `glabel`; the range then begins at that
\* first line and ends no later than the first such later line.
C6_FoundIffClosed ==
  out.op = "extract" =>
    LET ls == FileLines
        s  == First({i \in Idx(ls) : OpensAt(ls, i, out.name)})
        e  == First({i \in Idx(ls) : i > s /\ ClosesAt(ls, i, out.name)})
    IN  /\ (out.code # Null) <=> (s # -1 /\ e # -1)
        /\ (out.code # Null) =>
             /\ out.functionStart = s
             /\ s <= out.functionEnd
             /\ out.functionEnd <= e
             /\ out.code = TextOf(ls, s, out.functionEnd)

\* an open function met the next start marker with no terminator candidate
\* behind it, and its range ends on the line before that marker
C6_Witness ==
  /\ Extracted
  /\ out.name = NameF
  /\ FileLines = <<StartLine(NameF), Nop, Empty, StartLine(NameFo)>>
  /\ out.functionEnd = 2

\* C7 as claimed: the range starts at the first start marker line (a line
\* with the text `glabel NAME`) when there is one, and at the first bare
\* label only when there is none.
C7_Original ==
  Extracted =>
    LET ls == FileLines
        m  == First({i \in Idx(ls) : HasText(ls, i, GLABEL \o <<SP>> \o out.name)})
        l  == First({i \in Idx(ls) : BareLabel(ls, i, out.name)})
    IN  out.functionStart = (IF m # -1 THEN m ELSE l)

\* C8 as claimed: the start line is no start marker of another name, and an
\* end taken at a line with the text `.size NAME` is no size marker of
\* another name.
C8_Original ==
  Extracted =>
    LET ls == FileLines
    IN  /\ StartMarkerName(ls, out.functionStart) \in {<<>>, out.name}
        /\ (/\ out.functionEnd > out.functionStart
            /\ HasText(ls, out.functionEnd, DOTSIZE \o <<SP>> \o out.name))
             => SizeMarkerName(ls, out.functionEnd) = out.name

----------------------------------------------------------------------------
(* C9 *)

\* C9 as claimed: on a well-formed buffer, extractAssemblyFunction returns
\* for each listed name exactly the code listAssemblyFunctions lists.
C9_Original ==
  (out.op = "extract" /\ WellFormed(FileLines)) =>
    LET fs == listAssemblyFunctions(file)
    IN  \A k \in 1..Len(fs) : fs[k].name = out.name => out.code = fs[k].code

----------------------------------------------------------------------------
(* C10 *)

\* a character that is no line break, and a maximal run of n line breaks
Char(c) == [c |-> c, n |-> 0]
Run(n)  == [c |-> NL, n |-> n]

\* t as the sequence of its characters and its maximal runs of line breaks
RECURSIVE Shape(_)
Shape(t) ==
  IF t = <<>> THEN <<>>
  ELSE IF t[1] # NL THEN <<Char(t[1])>> \o Shape(Tail(t))
  ELSE LET n == SetMin({k \in 1..Len(t) : k = Len(t) \/ t[k + 1] # NL})
       IN  <<Run(n)>> \o Shape(SubSeq(t, n + 1, Len(t)))

\* the text after the block deletion, before the normalization
Deleted ==
  updatedContent(assemblyFileContent,
                 extractAssemblyFunction(assemblyFileContent, functionName))

\* C10: the text written back has no run of three or more line breaks: it
\* is the text after the deletion with every run of three or more line
\* breaks replaced by two, the shorter runs and all else as they were.
C10_BlankRunsCollapsed ==
  pc \in {"written", "saved", "done"} =>
    /\ \A i \in 1..(Len(file) - 2) :
         ~(file[i] = NL /\ file[i + 1] = NL /\ file[i + 2] = NL)
    /\ LET deleted == Shape(Deleted)
       IN  Shape(file) =
             [k \in DOMAIN deleted |->
                IF deleted[k].n >= 3 THEN Run(2) ELSE deleted[k]]

\* the deletion left a run of four line breaks, a run of three and a run of
\* one, and the text has been written
C10_Witness ==
  /\ pc = "written"
  /\ LET deleted == Shape(Deleted)
     IN  /\ \E k \in DOMAIN deleted : deleted[k].n = 4
         /\ \E k \in DOMAIN deleted : deleted[k].n = 3
         /\ \E k \in DOMAIN deleted : deleted[k].n = 1

----------------------------------------------------------------------------
(* C11 *)

\* C11: when extractAssemblyFunction resolves no range for functionName in
\* the content read, removeAssemblyFunction goes to its not-found error with
\* the persisted content unchanged, and it takes no step after the error: no
\* write and no editor save.
C11_NotFoundWritesNothing ==
  [][/\ (pc = "read" /\ ~Resolved(ResolveRange(ReadLines, functionName)))
         => (pc' = "notFound" /\ file' = file)
     /\ pc # "notFound"]_vars

\* the call failed on a text in which the function is opened and never
\* closed, and the text is as it was read
C11_Witness ==
  /\ pc = "notFound"
  /\ \E i \in Idx(ReadLines) : StartMarkerName(ReadLines, i) = functionName
  /\ file = assemblyFileContent

----------------------------------------------------------------------------
(* C12 *)

\* the names of a sequence of calls
CallSet(calls) == {calls[k] : k \in 1..Len(calls)}

\* the names the three matchers find in one line
LineCalls(line) ==
  {JalMatch(Trim(line)), RefMatch(Trim(line)), DirectMatch(Trim(line))} \ {<<>>}

\* the permutations of 1..n
LineOrders(n) ==
  {p \in [1..n -> 1..n] : \A i \in 1..n : \A j \in 1..n : p[i] = p[j] => i = j}

\* C12: the sequence returned has no name twice, its names are the union
\* over the lines of the names the three matchers find, and they are the
\* same for every permutation of the lines; for the lines `jal foo`,
\* `@ =bar`, `la $t0, =baz` in any order they are foo, bar and baz.
C12_CallsAreTheUnion ==
  out.op = "calls" =>
    LET ls == FileLines
    IN  /\ \A i \in 1..Len(out.calls) : \A j \in 1..Len(out.calls) :
             out.calls[i] = out.calls[j] => i = j
        /\ CallSet(out.calls) = UNION {LineCalls(ls[i]) : i \in 1..Len(ls)}
        /\ \A p \in LineOrders(Len(ls)) :
             CallSet(extractFunctionCallsFromAssembly(
                       Join([i \in 1..Len(ls) |-> ls[p[i]]])))
               = CallSet(out.calls)
        /\ (Len(ls) = 3 /\ {ls[1], ls[2], ls[3]}
                            = {JalLine(Foo), RefLine(Bar), LaLine(Baz)})
             => CallSet(out.calls) = {Foo, Bar, Baz}

\* the three forms in the order load, comment, call: three names, in the
\* order of the lines
C12_Witness ==
  /\ out.op = "calls"
  /\ FileLines = <<LaLine(Baz), RefLine(Bar), JalLine(Foo)>>
  /\ out.calls = <<Baz, Bar, Foo>>

----------------------------------------------------------------------------
(* C13 *)

\* line i is the size marker `.size NAME` of name
SizeMarkerOf(ls, i, name) == Trimmed(ls, i) = DOTSIZE \o <<SP>> \o name

\* the first size marker of the function declared at line i, -1 if none
SizeMarkerAfter(ls, i) ==
  First({e \in Idx(ls) : e > i /\ SizeMarkerOf(ls, e, StartMarkerName(ls, i))})

\* every function is `glabel NAME`, a body, `.size NAME`: every line with the
\* text `glabel` is a start marker, and each is followed by a size marker
\* naming its function before the next `glabel` line
StartToSize(ls) ==
  LET starts == {i \in Idx(ls) : HasText(ls, i, GLABEL)}
  IN  /\ starts # {}
      /\ \A i \in starts :
           /\ StartMarkerName(ls, i) # <<>>
           /\ SizeMarkerAfter(ls, i) # -1
           /\ \A k \in (i + 1)..SizeMarkerAfter(ls, i) : k \notin starts

\* C13 as claimed: in a buffer where every function is `glabel NAME`, body,
\* `.size NAME`, listAssemblyFunctions returns one record for each start
\* marker, and the record spans exactly from the start marker line to the
\* size marker line of its function.
C13_Original ==
  (out.op = "list" /\ StartToSize(FileLines)) =>
    LET ls == FileLines
        starts == {i \in Idx(ls) : HasText(ls, i, GLABEL)}
    IN  /\ Len(out.functions) = Cardinality(starts)
        /\ \A k \in 1..Len(out.functions) :
             /\ out.functions[k].startLine \in starts
             /\ out.functions[k].endLine =
                  SizeMarkerAfter(ls, out.functions[k].startLine)

----------------------------------------------------------------------------
(* C14, C15, C16: the backward terminator search                           *)

\* the greatest index of S, -1 when S is empty
Last(S) == IF S = {} THEN -1 ELSE CHOOSE x \in S : \A y \in S : x >= y

\* the line at which the function of name is opened
OpenedAt(ls, name) == First({i \in Idx(ls) : OpensAt(ls, i, name)})

\* the first line after the opening that closes the function, -1 if none
ClosedAt(ls, name) ==
  First({i \in Idx(ls) : i > OpenedAt(ls, name) /\ ClosesAt(ls, i, name)})

\* the function is open and the next start is reached before a line with
\* the text `.size NAME`
ReachesNextStart(ls, name) ==
  /\ OpenedAt(ls, name) # -1
  /\ ClosedAt(ls, name) # -1
  /\ ~HasText(ls, ClosedAt(ls, name), DOTSIZE \o <<SP>> \o name)

\* the terminator candidates
AlignMarker(ls, j)  == Trimmed(ls, j) = ALIGN3
AnySizeMarker(ls, j) == StartsWith(Trimmed(ls, j), DOTSIZE)
ReturnMarker(ls, j) == StartsWith(Trimmed(ls, j), JR)

\* the first marker hit scanning backward from the next start down to the
\* opening line, -1 if there is none
FirstHit(ls, name) ==
  Last({j \in OpenedAt(ls, name)..(ClosedAt(ls, name) - 1) :
          AlignMarker(ls, j) \/ AnySizeMarker(ls, j) \/ ReturnMarker(ls, j)})

\* C14: the function is open and the next start is reached at i before a
\* size marker for the name; if the first marker hit scanning backward from
\* i - 1 to the start is `.align 3` or a size marker of any name, at j, the
\* range returned ends at j.
C14_EndsAtAlignOrSize ==
  (out.op = "extract" /\ ReachesNextStart(FileLines, out.name)) =>
    LET j == FirstHit(FileLines, out.name)
    IN  (j # -1 /\ (AlignMarker(FileLines, j) \/ AnySizeMarker(FileLines, j)))
          => /\ out.functionEnd = j
             /\ out.code = TextOf(FileLines, OpenedAt(FileLines, out.name), j)

\* an `.align 3` line behind a return, an empty line between it and the
\* next start: the range ends at the `.align 3` line
C14_Witness ==
  /\ out.op = "extract"
  /\ out.name = NameF
  /\ FileLines = <<StartLine(NameF), Return, ALIGN3, Empty, StartLine(NameFo)>>
  /\ out.functionEnd = 2

C16_EndsBeforeNextStart ==
  (out.op = "extract" /\ ReachesNextStart(FileLines, out.name)) =>
    (FirstHit(FileLines, out.name) = -1
       => /\ out.functionEnd = ClosedAt(FileLines, out.name) - 1
          /\ out.code = TextOf(FileLines, OpenedAt(FileLines, out.name),
                               ClosedAt(FileLines, out.name) - 1))

\* a function opened at its bare label, an instruction, the next start
C16_Witness ==
  /\ out.op = "extract"
  /\ out.name = NameF
  /\ FileLines = <<LabelLine(NameF), Nop, StartLine(NameFo)>>
  /\ out.functionEnd = 1

----------------------------------------------------------------------------
(* C17 *)

\* the buffer ends while the function of name is open: it is opened, and no
\* later line has the text `.size NAME` or `glabel`
OpenAtEnd(ls, name) == OpenedAt(ls, name) # -1 /\ ClosedAt(ls, name) = -1

\* the last record of a catalogue, NoFunction when it is empty
LastRecord(fs) == IF Len(fs) = 0 THEN NoFunction ELSE fs[Len(fs)]

\* C17 as claimed: when the buffer ends while the function is open,
\* extractAssemblyFunction returns null and listAssemblyFunctions, on the
\* same buffer, emits a record from the line the function was opened at to
\* the last line. Taken on buffers in which only `.size` lines match the
\* size pattern (C13 plays no part).
C17_Original ==
  (/\ out.op = "extract"
   /\ OpenAtEnd(FileLines, out.name)
   /\ \A i \in Idx(FileLines) :
        SizeMarkerName(FileLines, i) # <<>> => AnySizeMarker(FileLines, i)) =>
    /\ out.code = Null
    /\ \E k \in 1..Len(listAssemblyFunctions(file)) :
         /\ listAssemblyFunctions(file)[k].startLine = OpenedAt(FileLines, out.name)
         /\ listAssemblyFunctions(file)[k].endLine = Len(FileLines) - 1

\* C17 amended: when the buffer ends while the function is open,
\* extractAssemblyFunction returns null. If the line it was opened at is a
\* start marker, of NAME, and no later line matches the size pattern with
\* NAME, the last record listAssemblyFunctions emits is NAME from that line
\* to the last line; if it is a bare label and no start marker,
\* listAssemblyFunctions emits no record that begins there or later.
C17_OpenAtEndOfBuffer ==
  (out.op = "extract" /\ OpenAtEnd(FileLines, out.name)) =>
    LET ls == FileLines
        s  == OpenedAt(ls, out.name)
        fs == listAssemblyFunctions(file)
    IN  /\ out.code = Null
        /\ (/\ StartMarkerName(ls, s) # <<>>
            /\ \A k \in Idx(ls) :
                 k > s => SizeMarkerName(ls, k) # StartMarkerName(ls, s))
             => /\ LastRecord(fs).name = StartMarkerName(ls, s)
                /\ LastRecord(fs).startLine = s
                /\ LastRecord(fs).endLine = Len(ls) - 1
                /\ LastRecord(fs).code = TextOf(ls, s, Len(ls) - 1)
        /\ StartMarkerName(ls, s) = <<>>
             => \A k \in 1..Len(fs) : fs[k].startLine < s

\* fo is opened after another function of the buffer and the buffer ends
\* one line later: no text is returned, and the catalogue ends with fo
C17_Witness ==
  /\ out.op = "extract"
  /\ out.name = NameFo
  /\ out.code = Null
  /\ FileLines = <<StartLine(NameF), StartLine(NameFo), Nop>>
  /\ LastRecord(listAssemblyFunctions(file)).startLine = 1
  /\ LastRecord(listAssemblyFunctions(file)).endLine = 2

----------------------------------------------------------------------------
(* C18 *)

\* the text a call that read content writes for name
Written(content, name) ==
  cleanedContent(content, extractAssemblyFunction(content, name))

\* C18: no lock is held between the read and the write: every write, of
\* either call, is the text computed from the content that call read,
\* whatever the other call has written since (so that when both calls read
\* before either writes, the second write undoes the first).
C18_WritesWhatItRead ==
  [][file' # file =>
       \/ /\ pc = "read" /\ pc' = "written" /\ racer' = racer
          /\ file' = Written(assemblyFileContent, functionName)
       \/ /\ racer.pc = "read" /\ racer'.pc = "written" /\ pc' = pc
          /\ file' = Written(racer.assemblyFileContent, racer.functionName)]_vars

\* both calls read the module before either wrote; the call removing fo
\* wrote first and has returned, the call removing f wrote last: the
\* persisted text is the one without f, and fo is listed in it as before
C18_Witness ==
  /\ pc = "done"
  /\ functionName = NameFo
  /\ racer.pc = "written"
  /\ racer.functionName = NameF
  /\ racer.assemblyFileContent = assemblyFileContent
  /\ ReadLines = Block(NameF, <<Nop>>) \o Block(NameFo, <<Return>>)
  /\ file = Written(assemblyFileContent, NameF)
  /\ file # Written(assemblyFileContent, NameFo)
  /\ Lists(listAssemblyFunctions(file), NameFo, Join(Block(NameFo, <<Return>>)))
  /\ ~Lists(listAssemblyFunctions(Written(assemblyFileContent, NameFo)),
            NameFo, Join(Block(NameFo, <<Return>>)))

----------------------------------------------------------------------------
(* C19 *)

\* C19: whenever a range is returned, start <= end, the end is before the
\* first line after the start that has the text `glabel`, so that no line
\* of the range but its first has it, and the text returned is the join of
\* the lines start..end.
C19_RangeStopsBeforeNextStart ==
  Extracted =>
    LET ls == FileLines
        next == First({i \in Idx(ls) :
                         i > out.functionStart /\ HasText(ls, i, GLABEL)})
    IN  /\ 0 <= out.functionStart
        /\ out.functionStart <= out.functionEnd
        /\ out.functionEnd < Len(ls)
        /\ next # -1 => out.functionEnd < next
        /\ \A k \in (out.functionStart + 1)..out.functionEnd :
             ~HasText(ls, k, GLABEL)
        /\ out.code = TextOf(ls, out.functionStart, out.functionEnd)

\* the range ends two lines before the next start, at an `.align 3` line
C19_Witness ==
  /\ Extracted
  /\ out.name = NameF
  /\ FileLines = <<StartLine(NameF), Nop, ALIGN3, Nop, StartLine(NameFo)>>
  /\ out.functionStart = 0
  /\ out.functionEnd = 2

----------------------------------------------------------------------------
(* C20 *)

\* the names of the start markers of ls are distinct
DistinctNames(ls) ==
  \A i \in Idx(ls) : \A j \in Idx(ls) :
    (i # j /\ StartMarkerName(ls, i) # <<>>)
      => StartMarkerName(ls, i) # StartMarkerName(ls, j)

\* C20 as claimed: in a buffer with distinct function names, a range
\* returned for a name starts at the line at which the catalogue's record
\* of that name starts, and ends at or before the line that record ends at.
\* Taken on buffers in which every `glabel` line names a function, no start
\* marker names the name or a longer one, no size marker names a longer
\* name and only `.size` lines match the size pattern (C3, C7, C8 and C13
\* play no part).
C20_Original ==
  (/\ Extracted
   /\ DistinctNames(FileLines)
   /\ \A i \in Idx(FileLines) :
        /\ HasText(FileLines, i, GLABEL) => StartMarkerName(FileLines, i) # <<>>
        /\ ~HasText(FileLines, i, GLABEL \o <<SP>> \o out.name)
        /\ HasText(FileLines, i, DOTSIZE \o <<SP>> \o out.name)
             => SizeMarkerName(FileLines, i) = out.name
        /\ SizeMarkerName(FileLines, i) # <<>> => AnySizeMarker(FileLines, i)) =>
    \E k \in 1..Len(listAssemblyFunctions(file)) :
      /\ listAssemblyFunctions(file)[k].name = out.name
      /\ listAssemblyFunctions(file)[k].startLine = out.functionStart
      /\ listAssemblyFunctions(file)[k].endLine >= out.functionEnd

\* C20 amended: in a buffer with distinct function names, when the range
\* returned for a name starts at a start marker that declares that name, the
\* catalogue has a record of that name that starts at the same line; if no
\* line strictly inside the range matches the catalogue's size pattern with
\* that name, the record ends at or after the range's end, and the text
\* returned is the first lines of the record's code.
C20_SameStartAsCatalogue ==
  (/\ Extracted
   /\ DistinctNames(FileLines)
   /\ StartMarkerName(FileLines, out.functionStart) = out.name) =>
    \E k \in 1..Len(listAssemblyFunctions(file)) :
      LET r == listAssemblyFunctions(file)[k]
      IN  /\ r.name = out.name
          /\ r.startLine = out.functionStart
          /\ (\A j \in (out.functionStart + 1)..(out.functionEnd - 1) :
                SizeMarkerName(FileLines, j) # out.name)
               => /\ r.endLine >= out.functionEnd
                  /\ out.code = TextOf(Split(r.code), 0,
                                       out.functionEnd - out.functionStart)

\* the range ends at a return, two lines before the end of the record the
\* catalogue has for the same function
C20_Witness ==
  /\ Extracted
  /\ out.name = NameF
  /\ FileLines = <<StartLine(NameF), Return, Nop, Empty, StartLine(NameFo)>>
  /\ out.functionEnd = 1
  /\ listAssemblyFunctions(file)[1].name = NameF
  /\ listAssemblyFunctions(file)[1].endLine = 3

====
